---- MODULE Spec2Model ----
(***************************************************************************)
(* Model of the stroeerCore bid adapter (modules/stroeerCoreBidAdapter.js). *)
(*                                                                         *)
(* The adapter keeps no state of its own between calls.  The state of the  *)
(* model is one call of one of its functions: the browsing contexts and    *)
(* the other ambient values the call reads, its arguments, what it         *)
(* returned or threw, and what it logged or sent.  A call starts from      *)
(* "idle"; Return hands the result back to the caller.                     *)
(*                                                                         *)
(* JavaScript values are tagged records, [t |-> <typeof-like tag>, ...],   *)
(* so that values of different types can be compared.                      *)
(***************************************************************************)
EXTENDS Integers, Sequences, FiniteSets, TLC

VARIABLES
    pc,       \* "idle", "walk" (inside the loop of getMostAccessibleTopWindow) or "done"
    op,       \* the function the current call runs
    wins,     \* the chain of browsing contexts: wins[1] is self, wins[Len(wins)] is top
    storage,  \* localStorage.sdgYieldtest
    clock,    \* Date.now()
    arg,      \* the arguments of the call
    ret,      \* its completion: Return(value) or Throw(error)
    res,      \* the local `res` of getMostAccessibleTopWindow: an index into wins
    log,      \* the messages the call gave to utils.logError
    sent      \* the requests ajax made for the call, each pending or ended

vars == <<pc, op, wins, storage, clock, arg, ret, res, log, sent>>

----------------------------------------------------------------------------
(* Bounds of the model. *)

\* the longest batch of bid requests
MaxBids == 3
\* the longest list of bids in a response body
MaxResponseBids == 2
\* the deepest nesting of frames: the number of contexts above self
MaxDepth == 2
MaxSizesBids == 2

----------------------------------------------------------------------------
(* JavaScript values. *)

Undefined == [t |-> "undefined"]
Null == [t |-> "null"]
Num(n) == [t |-> "number", v |-> n]
Str(s) == [t |-> "string", v |-> s]
Bool(b) == [t |-> "boolean", v |-> b]
Arr(items) == [t |-> "array", items |-> items]

\* the typeof operator
TypeOf(x) ==
    IF x.t \in {"null", "array"} THEN "object" ELSE x.t

\* ToBoolean
Truthy(x) ==
    CASE x.t = "undefined" -> FALSE
      [] x.t = "null" -> FALSE
      [] x.t = "number" -> x.v # 0
      [] x.t = "string" -> x.v # ""
      [] x.t = "boolean" -> x.v
      [] OTHER -> TRUE

\* x == null, the loose comparison: true of null and undefined only
IsNullish(x) == x.t \in {"undefined", "null"}

\* the completion of a call
Return(v) == [kind |-> "return", value |-> v]
Throw(e) == [kind |-> "throw", error |-> e]
NoCompletion == [kind |-> "none"]

\* obj.name: a missing property reads as undefined; a property of null or
\* undefined cannot be read
HasField(obj, name) == name \in DOMAIN obj
Get(obj, name) == IF HasField(obj, name) THEN obj[name] ELSE Undefined

----------------------------------------------------------------------------
(* utils.js *)

isStr(x) == x.t = "string"

BANNER == "banner"
VIDEO == "video"

----------------------------------------------------------------------------
(* spec.isBidRequestValid *)

\* (faulty variant) the legacy mediaType is not looked at
isBannerMediaTypesOnly(bidReq) ==
    \/ (~Truthy(bidReq.mediaTypes) /\ ~Truthy(bidReq.mediaType))
    \/ (Truthy(bidReq.mediaTypes) /\ Truthy(Get(bidReq.mediaTypes, BANNER)))

isBanner(bidReq) ==
    \/ (~Truthy(bidReq.mediaTypes) /\ ~Truthy(bidReq.mediaType))
    \/ (Truthy(bidReq.mediaTypes) /\ Truthy(Get(bidReq.mediaTypes, BANNER)))
    \/ bidReq.mediaType = Str(BANNER)

NumValidators == 4

\* typeof bidReq.params === 'object'
ParamsTypeCheck(bidReq) == TypeOf(bidReq.params) = "object"

\* (faulty variant) the slot id is only looked for, whatever its type
SidCheckPresence(params) == Get(params, "sid") # Undefined

\* utils.isStr(bidReq.params.sid)
SidCheck(params) == isStr(Get(params, "sid"))

\* (faulty variant) !bidReq.params.ssat in place of the comparison with undefined
SsatCheckFalsy(params) ==
    \/ ~Truthy(Get(params, "ssat"))
    \/ Get(params, "ssat") \in {Num(1), Num(2)}

\* bidReq.params.ssat === undefined || [1, 2].indexOf(bidReq.params.ssat) > -1
SsatCheck(params) ==
    \/ Get(params, "ssat") = Undefined
    \/ Get(params, "ssat") \in {Num(1), Num(2)}

\* the check function of the k-th validator pushed: Return(TRUE or FALSE), or
\* Throw when it reads a property of null or undefined
checkFn(k, bidReq) ==
    CASE k = 1 -> Return(isBanner(bidReq))
      [] k = 2 -> Return(ParamsTypeCheck(bidReq))
      [] k = 3 -> IF IsNullish(bidReq.params)
                  THEN Throw("TypeError")
                  ELSE Return(SidCheck(bidReq.params))
      [] k = 4 -> IF IsNullish(bidReq.params)
                  THEN Throw("TypeError")
                  ELSE Return(SsatCheck(bidReq.params))

errorMsgFn(k) ==
    CASE k = 1 -> "is not a banner"
      [] k = 2 -> "does not have custom params"
      [] k = 3 -> "does not have a sid string field"
      [] k = 4 -> "does not have a valid ssat value (must be 1 or 2)"

\* validators.every(f => f(bidRequest)) from the k-th validator on: the
\* completion and the messages logged
RECURSIVE every(_, _)
every(k, bidReq) ==
    IF k > NumValidators
    THEN [out |-> Return(Bool(TRUE)), log |-> <<>>]
    ELSE LET c == checkFn(k, bidReq) IN
         CASE c.kind = "throw" -> [out |-> c, log |-> <<>>]
           [] c.kind = "return" /\ ~c.value ->
                [out |-> Return(Bool(FALSE)), log |-> <<errorMsgFn(k)>>]
           [] OTHER -> every(k + 1, bidReq)

isBidRequestValid(bidRequest) == every(1, bidRequest)

----------------------------------------------------------------------------
(* The browsing contexts.

   wins[1] is the current context (utils.getWindowSelf()), wins[i + 1] is the
   parent of wins[i], and the last one is the top (utils.getWindowTop()), its
   own parent.  A context is [acc, href, protocol, docReferrer, referrer,
   innerHeight, frameElement, elements, yieldlove_ab]:
     acc           whether the current context may read into it (same origin);
                   reading location.href, document, innerHeight or frameElement
                   of a context with acc = FALSE raises, and frameElement of a
                   context whose parent has acc = FALSE is null
     docReferrer   document.referrer
     referrer      the property named referrer of the window object itself
     frameElement  the element that embeds the context in its parent
     elements      document.getElementById, as a function of the id *)

Rect(top, height) == [top |-> top, height |-> height]
Element(rect) == [t |-> "object", rect |-> rect]

self(w) == w[1]
top(w) == w[Len(w)]
IsTop(w, i) == i = Len(w)

\* getTopWindowReferrer: Return(value); the catch leaves nothing to throw
getTopWindowReferrer(w) ==
    IF top(w).acc
    THEN Return(top(w).docReferrer)
    ELSE Return(self(w).referrer)

isSecureWindow(w) == self(w).protocol = "https:"

\* (faulty variant) the walk stops one context early: .parent compared with the top
LoopConditionParentIsTop(w, r) ==
    IF IsTop(w, r) \/ IsTop(w, r + 1)
    THEN Return(FALSE)
    ELSE IF ~w[r + 1].acc
         THEN Throw("SecurityError")
         ELSE Return(Len(w[r + 1].href) # 0)

\* the condition of the while loop of getMostAccessibleTopWindow with
\* res = wins[r]: Return(TRUE or FALSE), or Throw when the parent's location
\* cannot be read
LoopCondition(w, r) ==
    IF IsTop(w, r)
    THEN Return(FALSE)
    ELSE IF ~w[r + 1].acc
         THEN Throw("SecurityError")
         ELSE Return(Len(w[r + 1].href) # 0)

\* getMostAccessibleTopWindow, started with res = wins[r]: the index of the
\* context returned
RECURSIVE getMostAccessibleTopWindowFrom(_, _)
getMostAccessibleTopWindowFrom(w, r) ==
    LET c == LoopCondition(w, r) IN
    IF c.kind = "return" /\ c.value
    THEN getMostAccessibleTopWindowFrom(w, r + 1)
    ELSE r

getMostAccessibleTopWindow(w) == getMostAccessibleTopWindowFrom(w, 1)

isMainPageAccessible(w) == getMostAccessibleTopWindow(w) = Len(w)

\* win.frameElement for win = wins[i], read from the current context
frameElement(w, i) ==
    IF w[i + 1].acc THEN w[i].frameElement ELSE Null

\* rect.top + rect.height >= 0 && rect.top <= win.innerHeight
inView(rect, win) ==
    (rect.top + rect.height >= 0) /\ (rect.top <= win.innerHeight)

\* (faulty variant) the embedding frames are not looked at
visibleInOwnWindow(w, el, i) ==
    IF IsNullish(el)
    THEN Throw("TypeError")
    ELSE Return(inView(el.rect, w[i]))

\* visibleInWindow(el, win) for win = wins[i]: Return(TRUE or FALSE), or Throw
RECURSIVE visibleInWindow(_, _, _)
visibleInWindow(w, el, i) ==
    IF IsNullish(el)
    THEN Throw("TypeError")
    ELSE IF ~w[i].acc
    THEN Throw("SecurityError")
    ELSE IF ~IsTop(w, i)
    THEN IF inView(el.rect, w[i])
         THEN visibleInWindow(w, frameElement(w, i), i + 1)
         ELSE Return(FALSE)
    ELSE Return(inView(el.rect, w[i]))

resolveElement(w, elId) == Get(self(w).elements, elId)

\* elementInView: Bool(TRUE), Bool(FALSE) or Undefined
elementInView(w, elementId) ==
    LET c == visibleInWindow(w, resolveElement(w, elementId), 1) IN
    IF c.kind = "throw" THEN Undefined ELSE Bool(c.value)

----------------------------------------------------------------------------
(* spec.buildRequests *)

DEFAULT_HOST == "hb.adscale.de"
DEFAULT_PATH == "/dsh"
DEFAULT_PORT == ""
DefaultSsat == 2

\* utils.isEmpty
isEmpty(x) ==
    \/ ~Truthy(x)
    \/ x.t = "array" /\ Len(x.items) = 0
    \/ x.t = "object" /\ DOMAIN x = {"t"}

\* find(list, bidRequest => bidRequest.params[key]) from index k on: the
\* first element whose params[key] is truthy, or undefined
RECURSIVE findFrom(_, _, _)
findFrom(list, key, k) ==
    IF k > Len(list)
    THEN Undefined
    ELSE IF Truthy(Get(list[k].params, key))
         THEN list[k]
         ELSE findFrom(list, key, k + 1)

\* (faulty variant) the search runs from the end of the list
RECURSIVE findLastFrom(_, _, _)
findLastFrom(list, key, k) ==
    IF k < 1
    THEN Undefined
    ELSE IF Truthy(Get(list[k].params, key))
         THEN list[k]
         ELSE findLastFrom(list, key, k - 1)

findLast(list, key) == findLastFrom(list, key, Len(list))

find(list, key) == findFrom(list, key, 1)

\* the ssat of the payload
ResolveSsat(validBidRequests) ==
    LET bidRequestWithSsat == find(validBidRequests, "ssat") IN
    IF Truthy(bidRequestWithSsat)
    THEN bidRequestWithSsat.params.ssat
    ELSE Num(DefaultSsat)

\* (faulty variant) any stored value switches the flag on
ResolveYl2AnyStored(validBidRequests, sdgYieldtest) ==
    LET bidRequestWithYl2 == find(validBidRequests, "yl2") IN
    IF Truthy(bidRequestWithYl2)
    THEN bidRequestWithYl2.params.yl2
    ELSE Bool(Truthy(sdgYieldtest))

\* the yl2 of the payload
ResolveYl2(validBidRequests, sdgYieldtest) ==
    LET bidRequestWithYl2 == find(validBidRequests, "yl2") IN
    IF Truthy(bidRequestWithYl2)
    THEN bidRequestWithYl2.params.yl2
    ELSE Bool(sdgYieldtest = Str("1"))

\* a default of a destructured parameter applies to undefined only
OrDefault(x, d) == IF x = Undefined THEN d ELSE x

\* the text of a string or of a number, as a template literal gives it
toText(x) == IF x.t = "number" THEN ToString(x.v) ELSE x.v

\* utils.buildUrl, for the parts this adapter hands it: a part that is
\* falsy is left out, and the port comes with its colon
utils_buildUrl(obj) ==
    Str((IF Truthy(obj.protocol) THEN toText(obj.protocol) ELSE "http")
        \o "://"
        \o toText(obj.hostname)
        \o (IF Truthy(obj.port) THEN ":" \o toText(obj.port) ELSE "")
        \o (IF Truthy(obj.pathname) THEN toText(obj.pathname) ELSE ""))

\* (faulty variant) a plain port is kept when there is one
buildUrlPortWins(params) ==
    LET port == OrDefault(Get(params, "port"), Str(DEFAULT_PORT))
        securePort == Get(params, "securePort")
    IN  utils_buildUrl(
            [protocol |-> Str("https"),
             hostname |-> OrDefault(Get(params, "host"), Str(DEFAULT_HOST)),
             port |-> IF Truthy(port) THEN port ELSE securePort,
             pathname |-> OrDefault(Get(params, "path"), Str(DEFAULT_PATH))])

\* buildUrl
buildUrl(params) ==
    LET port == OrDefault(Get(params, "port"), Str(DEFAULT_PORT))
        securePort == Get(params, "securePort")
    IN  utils_buildUrl(
            [protocol |-> Str("https"),
             hostname |-> OrDefault(Get(params, "host"), Str(DEFAULT_HOST)),
             port |-> IF Truthy(securePort) THEN securePort ELSE port,
             pathname |-> OrDefault(Get(params, "path"), Str(DEFAULT_PATH))])

\* (faulty variant) the legacy sizes come first
bidSizesLegacyFirst(bid) ==
    LET deep == Get(Get(Get(bid, "mediaTypes"), "banner"), "sizes") IN
    IF Truthy(Get(bid, "sizes")) THEN bid.sizes
    ELSE IF Truthy(deep) THEN deep
    ELSE Arr(<<>>)

\* utils.deepAccess(bid, 'mediaTypes.banner.sizes') || bid.sizes || []
bidSizes(bid) ==
    LET deep == Get(Get(Get(bid, "mediaTypes"), "banner"), "sizes") IN
    IF Truthy(deep) THEN deep
    ELSE IF Truthy(Get(bid, "sizes")) THEN bid.sizes
    ELSE Arr(<<>>)

\* the entry pushed to payload.bids for one valid bid request
PayloadBid(w, bid) ==
    [t |-> "object",
     bid |-> bid.bidId,
     sid |-> Get(bid.params, "sid"),
     siz |-> bidSizes(bid),
     viz |-> elementInView(w, bid.adUnitCode)]

\* (faulty variant) the two values are tested for truth
PayloadGdprTruthy(gdprConsent) ==
    IF /\ Truthy(gdprConsent)
       /\ Truthy(Get(gdprConsent, "consentString"))
       /\ Truthy(Get(gdprConsent, "gdprApplies"))
    THEN [t |-> "object",
          consent |-> gdprConsent.consentString,
          applies |-> gdprConsent.gdprApplies]
    ELSE Undefined

\* payload.gdpr
PayloadGdpr(gdprConsent) ==
    IF /\ Truthy(gdprConsent)
       /\ ~IsNullish(Get(gdprConsent, "consentString"))
       /\ ~IsNullish(Get(gdprConsent, "gdprApplies"))
    THEN [t |-> "object",
          consent |-> gdprConsent.consentString,
          applies |-> gdprConsent.gdprApplies]
    ELSE Undefined

\* the payload; a property that is not set is undefined
Payload(validBidRequests, bidderRequest, w, sdgYieldtest, now) ==
    LET anyBid == bidderRequest.bids[1]
        userIds == Get(anyBid, "userId")
        gdprConsent == bidderRequest.gdprConsent
    IN  [t |-> "object",
         id |-> bidderRequest.auctionId,
         bids |-> Arr([i \in 1..Len(validBidRequests) |->
                          PayloadBid(w, validBidRequests[i])]),
         ref |-> getTopWindowReferrer(w).value,
         ssl |-> Bool(isSecureWindow(w)),
         mpa |-> Bool(isMainPageAccessible(w)),
         timeout |-> Num(bidderRequest.timeout - (now - bidderRequest.auctionStart)),
         ssat |-> ResolveSsat(validBidRequests),
         yl2 |-> ResolveYl2(validBidRequests, sdgYieldtest),
         ab |-> self(w).yieldlove_ab,
         user |-> IF ~isEmpty(userIds)
                  THEN [t |-> "object", euids |-> userIds]
                  ELSE Undefined,
         gdpr |-> PayloadGdpr(gdprConsent)]

\* buildRequests: Return(the request), or Throw when the first bid of the
\* batch is missing or has no params to destructure
buildRequests(validBidRequests, bidderRequest, w, sdgYieldtest, now) ==
    IF Len(bidderRequest.bids) = 0
    THEN Throw("TypeError")
    ELSE IF IsNullish(bidderRequest.bids[1].params)
    THEN Throw("TypeError")
    ELSE Return([t |-> "object",
                 method |-> "POST",
                 url |-> buildUrl(bidderRequest.bids[1].params),
                 data |-> Payload(validBidRequests, bidderRequest, w, sdgYieldtest, now)])

----------------------------------------------------------------------------
(* spec.interpretResponse *)

TTL == 300

\* x || 0
OrZero(x) == IF Truthy(x) THEN x ELSE Num(0)

OwnKeys(obj) == DOMAIN obj \ {"t"}

\* Object.assign(target, source)
ObjectAssign(target, source) ==
    [k \in DOMAIN target \cup OwnKeys(source) |->
        IF k \in OwnKeys(source) THEN source[k] ELSE target[k]]

\* the bid built from one entry of body.bids, before the merge
BaseBid(bidResponse) ==
    [t |-> "object",
     requestId |-> Get(bidResponse, "bidId"),
     cpm |-> OrZero(Get(bidResponse, "cpm")),
     width |-> OrZero(Get(bidResponse, "width")),
     height |-> OrZero(Get(bidResponse, "height")),
     ad |-> Get(bidResponse, "ad"),
     ttl |-> Num(TTL),
     currency |-> Str("EUR"),
     netRevenue |-> Bool(TRUE),
     creativeId |-> Str("")]

\* (faulty variant) the fields of the bid are kept on a collision
NormalizedBidBaseWins(bidResponse) ==
    IF Truthy(Get(bidResponse, "bidPriceOptimisation"))
    THEN ObjectAssign(bidResponse.bidPriceOptimisation, BaseBid(bidResponse))
    ELSE BaseBid(bidResponse)

\* the bid pushed for one entry of body.bids
NormalizedBid(bidResponse) ==
    IF Truthy(Get(bidResponse, "bidPriceOptimisation"))
    THEN ObjectAssign(BaseBid(bidResponse), bidResponse.bidPriceOptimisation)
    ELSE BaseBid(bidResponse)

\* (faulty variant) the type alone is looked at
BodyIsObjectByType(body) == TypeOf(body) = "object"

\* whether the body is looked into
BodyIsObject(body) == Truthy(body) /\ TypeOf(body) = "object"

\* ajax(url, callback), with no data and no options: a GET of the url that
\* is under way when ajax returns
ajax(url) == [url |-> url, method |-> "GET", state |-> "pending"]

\* (faulty variant) one call of ajax for every entry of body.bids
TrackingCallsPerBid(body) ==
    IF BodyIsObject(body) /\ Truthy(Get(body, "tep")) /\ Get(body, "bids").t = "array"
    THEN [i \in DOMAIN body.bids.items |-> body.tep]
    ELSE <<>>

\* the URLs given to ajax
TrackingCalls(body) ==
    IF BodyIsObject(body) /\ Truthy(Get(body, "tep")) THEN <<body.tep>> ELSE <<>>

\* interpretResponse: Return(the array of bids), or Throw when body.bids has
\* no forEach
interpretResponse(serverResponse) ==
    LET body == serverResponse.body IN
    IF BodyIsObject(body)
    THEN IF Get(body, "bids").t # "array"
         THEN Throw("TypeError")
         ELSE Return(Arr([i \in 1..Len(body.bids.items) |->
                             NormalizedBid(body.bids.items[i])]))
    ELSE Return(Arr(<<>>))

----------------------------------------------------------------------------
(* spec.getUserSyncs *)

SYNC_URL == "https://js.adscale.de/pbsync.html"

\* (faulty variant) one descriptor for every response
getUserSyncsPerResponse(syncOptions, serverResponses) ==
    IF Len(serverResponses.items) > 0 /\ Truthy(Get(syncOptions, "iframeEnabled"))
    THEN Arr([i \in DOMAIN serverResponses.items |->
                 [t |-> "object", type |-> Str("iframe"), url |-> Str(SYNC_URL)]])
    ELSE Arr(<<>>)

getUserSyncs(syncOptions, serverResponses) ==
    IF Len(serverResponses.items) > 0 /\ Truthy(Get(syncOptions, "iframeEnabled"))
    THEN Arr(<<[t |-> "object", type |-> Str("iframe"), url |-> Str(SYNC_URL)]>>)
    ELSE Arr(<<>>)

----------------------------------------------------------------------------
(* The inputs the calls are made with. *)

\* the non-empty sequences over S of at most n elements
SeqsUpTo(S, n) == UNION {[1..k -> S] : k \in 1..n}

\* --- browsing contexts

DefaultWin ==
    [acc |-> TRUE, href |-> "http://www.xyz.com/", protocol |-> "http:",
     docReferrer |-> Str(""), referrer |-> Undefined, innerHeight |-> 1,
     frameElement |-> Null, elements |-> [t |-> "object"],
     yieldlove_ab |-> Undefined]

DefaultWins == <<DefaultWin>>

\* the chains of a current context out of Selves below at most MaxDepth
\* contexts out of Others
Chains(Selves, Others) ==
    UNION {{[i \in 1..(n + 1) |-> IF i = 1 THEN s ELSE o[i - 1]] :
               s \in Selves, o \in [1..n -> Others]} : n \in 0..MaxDepth}

\* a rectangle of height 1 in a viewport of height 1: out of view above,
\* touching the upper edge, touching the lower edge, out of view below
RectTops == {-2, -1, 1, 2}
Rects == {Rect(tp, 1) : tp \in RectTops}
ElementIds == {"div-1", "div-2"}

\* documents with no element, or with the element div-1
Documents ==
    {[t |-> "object"]} \cup {("div-1" :> Element(r)) @@ [t |-> "object"] : r \in Rects}

AccessChains ==
    Chains({DefaultWin}, {[DefaultWin EXCEPT !.acc = a] : a \in BOOLEAN})

ReferrerChains ==
    Chains({[DefaultWin EXCEPT !.docReferrer = Str(d)] : d \in {"", "ref-self"}},
           {[DefaultWin EXCEPT !.acc = a, !.docReferrer = Str(d)] :
               a \in BOOLEAN, d \in {"", "ref-top"}})

GeometryChains ==
    Chains({[DefaultWin EXCEPT !.elements = d, !.frameElement = Element(r)] :
               d \in Documents, r \in Rects},
           {[DefaultWin EXCEPT !.acc = a, !.frameElement = Element(r)] :
               a \in BOOLEAN, r \in Rects})

\* --- bid requests

BannerMediaTypes ==
    [t |-> "object",
     banner |-> [t |-> "object", sizes |-> Arr(<<Arr(<<Num(300), Num(600)>>)>>)]]
VideoMediaTypes ==
    [t |-> "object", video |-> [t |-> "object"]]
BothMediaTypes ==
    [t |-> "object",
     banner |-> [t |-> "object", sizes |-> Arr(<<Arr(<<Num(300), Num(600)>>)>>)],
     video |-> [t |-> "object"]]

BidRequest(bidId, mediaTypes, mediaType, params) ==
    [t |-> "object", bidId |-> Str(bidId), adUnitCode |-> "div-1",
     mediaTypes |-> mediaTypes, mediaType |-> mediaType, params |-> params,
     sizes |-> Undefined, userId |-> Undefined]

Params(sid, ssat, yl2) ==
    [t |-> "object", sid |-> sid, ssat |-> ssat, yl2 |-> yl2]

SidValues == {Undefined, Null, Num(1), Str(""), Str("s1")}
SsatValues ==
    {Undefined, Null, Str("1"), Bool(TRUE)} \cup {Num(n) : n \in -1..4}

\* what isBidRequestValid is called with
ValidatorRequests ==
    {BidRequest("1", mts, mt, p) :
        mts \in {Undefined, [t |-> "object"], BannerMediaTypes, VideoMediaTypes,
                 BothMediaTypes},
        mt \in {Undefined, Str(BANNER), Str(VIDEO)},
        p \in {Undefined, Null, Str("sid"), Num(1), [t |-> "object"]}
              \cup {Params(sid, ssat, Undefined) :
                        sid \in SidValues, ssat \in SsatValues}}

\* the bid requests of a batch, but for their ids: valid ones that set ssat,
\* yl2, both or neither, and some the validator rejects
BatchShapes ==
    {BidRequest("", BannerMediaTypes, Undefined, Params(Str("s1"), ssat, Undefined)) :
        ssat \in {Undefined, Num(1), Num(2)}}
    \cup {BidRequest("", BannerMediaTypes, Undefined, Params(Str("s1"), Undefined, yl2)) :
        yl2 \in {Bool(TRUE), Bool(FALSE), Num(1)}}
    \cup {BidRequest("", BannerMediaTypes, Undefined,
                     Params(Str("s1"), Num(2), Bool(FALSE))),
          BidRequest("", BannerMediaTypes, Undefined,
                     Params(Undefined, Num(1), Bool(TRUE))),
          BidRequest("", VideoMediaTypes, Undefined,
                     Params(Str("s1"), Num(2), Bool(TRUE))),
          BidRequest("", BannerMediaTypes, Undefined, Undefined)}

\* the endpoint a bid request may name in its params: each part given or
\* not, a port also as the empty string
Endpoints ==
    {[host |-> h, port |-> p, securePort |-> sp, path |-> pa] :
        h \in {Undefined, Str("other.com")},
        p \in {Undefined, Str(""), Str("234")},
        sp \in {Undefined, Str(""), Str("871")},
        pa \in {Undefined, Str("/xyz")}}

\* batches of two bid requests that name different endpoints, the first of
\* them one the validator accepts or one it rejects
EndpointShapes ==
    {<<BidRequest("", mts, Undefined,
                  e @@ Params(Str("s1"), Undefined, Undefined)),
       BidRequest("", BannerMediaTypes, Undefined,
                  [host |-> Str("second.com"), port |-> Str("1"),
                   securePort |-> Str("2"), path |-> Str("/second")]
                  @@ Params(Str("s2"), Undefined, Undefined))>> :
        mts \in {BannerMediaTypes, VideoMediaTypes}, e \in Endpoints}

\* lists of sizes
Sizes(list) == Arr([i \in DOMAIN list |-> Arr(<<Num(list[i][1]), Num(list[i][2])>>)])
LegacySizes == Sizes(<<<<728, 90>>>>)

\* bid requests that declare their sizes in mediaTypes.banner (some, or an
\* empty list), in the legacy sizes, in both or nowhere
SizesShapes ==
    {[BidRequest("", mts, mt, Params(Str("s1"), Undefined, Undefined))
         EXCEPT !.sizes = sizes] :
        mts \in {BannerMediaTypes,
                 [t |-> "object", banner |-> [t |-> "object", sizes |-> Arr(<<>>)]],
                 [t |-> "object", banner |-> [t |-> "object"]]},
        mt \in {Undefined},
        sizes \in {Undefined, LegacySizes}}
    \cup {[BidRequest("", Undefined, mt, Params(Str("s1"), Undefined, Undefined))
             EXCEPT !.sizes = sizes] :
        mt \in {Undefined, Str(BANNER)},
        sizes \in {Undefined, LegacySizes}}

\* the batches: bidderRequest.bids, the i-th with bid id i
Batches ==
    {[i \in DOMAIN shapes |-> [shapes[i] EXCEPT !.bidId = Str(ToString(i))]] :
        shapes \in SeqsUpTo(BatchShapes, MaxBids) \cup EndpointShapes
                   \cup SeqsUpTo(SizesShapes, MaxSizesBids)}

\* bidderFactory hands buildRequests the bid requests of the batch that
\* isBidRequestValid returns true for, in their order
IsValid(bidRequest) == isBidRequestValid(bidRequest).out = Return(Bool(TRUE))
ValidBidRequests(bids) == SelectSeq(bids, IsValid)

BidderRequest(bids, gdprConsent) ==
    [t |-> "object", auctionId |-> Str("auction"), bids |-> bids,
     timeout |-> 5, auctionStart |-> 10, gdprConsent |-> gdprConsent]

GdprConsent(consentString, gdprApplies) ==
    [t |-> "object", consentString |-> consentString, gdprApplies |-> gdprApplies]

StorageValues == {Undefined, Str("1"), Str("0")}

\* the context and the consent buildRequests is called with: alone in the
\* page, or in one frame of a page that can or cannot be read
BuildAmbients ==
    LET me == [DefaultWin EXCEPT
                  !.elements = ("div-1" :> Element(Rect(1, 1))) @@ [t |-> "object"],
                  !.frameElement = Element(Rect(1, 1)),
                  !.docReferrer = Str("ref-self")]
        parent(a) == [DefaultWin EXCEPT !.acc = a, !.docReferrer = Str("ref-top")]
    IN  {[wins |-> <<me>>, gdprConsent |-> Undefined],
         [wins |-> <<[me EXCEPT !.protocol = "https:"], parent(TRUE)>>,
          gdprConsent |-> GdprConsent(Str("consent"), Bool(FALSE))],
         [wins |-> <<me, parent(FALSE)>>,
          gdprConsent |-> GdprConsent(Str("consent"), Null)]}

\* the consents of a batch: none, or an object with each of its two values
\* given, null or left out
Consents ==
    {Undefined, Null}
    \cup {GdprConsent(consentString, gdprApplies) :
            consentString \in {Undefined, Null, Str(""), Str("consent")},
            gdprApplies \in {Undefined, Null, Bool(FALSE), Bool(TRUE)}}

\* what a batch is built in: a batch of one bid request with every consent,
\* a longer one with those of BuildAmbients
AmbientsOf(bids) ==
    IF Len(bids) = 1
    THEN BuildAmbients
         \cup {[wins |-> DefaultWins, gdprConsent |-> c] : c \in Consents}
    ELSE BuildAmbients

\* --- server responses

PriceOptimisations ==
    {Undefined,
     [t |-> "object", cp |-> Num(4), ropFactor |-> Num(12)],
     [t |-> "object", cpm |-> Num(9), requestId |-> Str("other")]}

\* the bid ids a response may name
ResponseBidIds == {Str("1"), Str("2"), Str("unknown")}

BidResponses ==
    {[t |-> "object", bidId |-> id, cpm |-> Num(4), width |-> Num(300),
      height |-> Num(600), ad |-> Str("<div>tag</div>"),
      bidPriceOptimisation |-> bpo] :
        id \in ResponseBidIds, bpo \in PriceOptimisations}
    \cup {[t |-> "object", bidId |-> id, bidPriceOptimisation |-> bpo] :
        id \in ResponseBidIds, bpo \in PriceOptimisations}
    \cup {[t |-> "object", bidId |-> Str("1"), cpm |-> Null, width |-> Num(0),
           ad |-> Str("<div>tag</div>"), bidPriceOptimisation |-> bpo] :
        bpo \in PriceOptimisations \cup {Null}}

Bodies ==
    {Undefined, Null, Str(""), Str(" "), Num(0), Num(1), Bool(FALSE), Bool(TRUE),
     [t |-> "object"], Arr(<<>>),
     [t |-> "object", redirect |-> Str("http://somewhere.com/over")]}
    \cup {[t |-> "object", tep |-> tep, bids |-> Arr(<<>>)] : tep \in {Null, Str("")}}
    \cup {[t |-> "object", tep |-> Str("//hb.adscale.de/sspReqId")]}
    \cup {[t |-> "object", tep |-> tep, bids |-> Arr(items)] :
            tep \in {Undefined, Str("//hb.adscale.de/sspReqId")},
            items \in {<<>>} \cup SeqsUpTo(BidResponses, MaxResponseBids)}

----------------------------------------------------------------------------
(* The calls. *)

NoArg == [t |-> "undefined"]
Window(i) == [t |-> "window", index |-> i]

Init ==
    /\ pc = "idle"
    /\ op = "none"
    /\ wins = DefaultWins
    /\ storage = Undefined
    /\ clock = 0
    /\ arg = NoArg
    /\ ret = NoCompletion
    /\ res = 0
    /\ log = <<>>
    /\ sent = <<>>

CallIsBidRequestValid ==
    /\ pc = "idle"
    /\ \E bidRequest \in ValidatorRequests :
        LET r == isBidRequestValid(bidRequest) IN
        /\ pc' = "done"
        /\ op' = "isBidRequestValid"
        /\ arg' = [bidRequest |-> bidRequest]
        /\ ret' = r.out
        /\ log' = r.log
        /\ UNCHANGED <<wins, storage, clock, res, sent>>

CallGetTopWindowReferrer ==
    /\ pc = "idle"
    /\ \E w \in ReferrerChains :
        /\ pc' = "done"
        /\ op' = "getTopWindowReferrer"
        /\ wins' = w
        /\ ret' = getTopWindowReferrer(w)
        /\ UNCHANGED <<storage, clock, arg, res, log, sent>>

CallElementInView ==
    /\ pc = "idle"
    /\ \E w \in GeometryChains, elementId \in ElementIds :
        /\ pc' = "done"
        /\ op' = "elementInView"
        /\ wins' = w
        /\ arg' = [elementId |-> elementId]
        /\ ret' = Return(elementInView(w, elementId))
        /\ UNCHANGED <<storage, clock, res, log, sent>>

\* getMostAccessibleTopWindow, alone or for isMainPageAccessible, one turn
\* of its loop at a time: let res = utils.getWindowSelf()
WalkStart ==
    /\ pc = "idle"
    /\ \E w \in AccessChains, o \in {"getMostAccessibleTopWindow", "isMainPageAccessible"} :
        /\ pc' = "walk"
        /\ op' = o
        /\ wins' = w
        /\ res' = 1
        /\ UNCHANGED <<storage, clock, arg, ret, log, sent>>

\* the condition holds: res = res.parent
WalkStep ==
    /\ pc = "walk"
    /\ LoopCondition(wins, res) = Return(TRUE)
    /\ res' = res + 1
    /\ UNCHANGED <<pc, op, wins, storage, clock, arg, ret, log, sent>>

\* the condition fails or throws: return res
WalkExit ==
    /\ pc = "walk"
    /\ LoopCondition(wins, res) # Return(TRUE)
    /\ pc' = "done"
    /\ ret' = IF op = "isMainPageAccessible"
              THEN Return(Bool(res = Len(wins)))
              ELSE Return(Window(res))
    /\ UNCHANGED <<op, wins, storage, clock, arg, res, log, sent>>

CallBuildRequests ==
    /\ pc = "idle"
    /\ \E bids \in Batches :
       \E ambient \in AmbientsOf(bids), sdgYieldtest \in StorageValues, now \in {12} :
        LET bidderRequest == BidderRequest(bids, ambient.gdprConsent)
            validBidRequests == ValidBidRequests(bids)
            w == ambient.wins
        IN  /\ pc' = "done"
            /\ op' = "buildRequests"
            /\ wins' = w
            /\ storage' = sdgYieldtest
            /\ clock' = now
            /\ arg' = [validBidRequests |-> validBidRequests,
                       bidderRequest |-> bidderRequest]
            /\ ret' = buildRequests(validBidRequests, bidderRequest, w,
                                    sdgYieldtest, now)
            /\ UNCHANGED <<res, log, sent>>

\* the response to a batch of n bid requests, with the bid ids 1..n
CallInterpretResponse ==
    /\ pc = "idle"
    /\ \E body \in Bodies, n \in {1, 2} :
        LET serverResponse == [t |-> "object", body |-> body] IN
        /\ pc' = "done"
        /\ op' = "interpretResponse"
        /\ arg' = [serverResponse |-> serverResponse,
                   bidIds |-> {Str(ToString(i)) : i \in 1..n}]
        /\ ret' = interpretResponse(serverResponse)
        /\ sent' = [i \in DOMAIN TrackingCalls(body) |-> ajax(TrackingCalls(body)[i])]
        /\ UNCHANGED <<wins, storage, clock, res, log>>

\* a request of ajax ends, well or not, and the callback () => {} is run:
\* it does nothing
AjaxEnds ==
    /\ pc = "done"
    /\ \E i \in DOMAIN sent, outcome \in {"success", "error"} :
        /\ sent[i].state = "pending"
        /\ sent' = [sent EXCEPT ![i].state = outcome]
    /\ UNCHANGED <<pc, op, wins, storage, clock, arg, ret, res, log>>

CallGetUserSyncs ==
    /\ pc = "idle"
    /\ \E iframeEnabled \in {Undefined, Bool(FALSE), Bool(TRUE)},
          pixelEnabled \in {Bool(FALSE), Bool(TRUE)}, n \in 0..MaxBids :
        LET syncOptions == [t |-> "object", iframeEnabled |-> iframeEnabled,
                            pixelEnabled |-> pixelEnabled]
            serverResponses == Arr([i \in 1..n |-> Str("")])
        IN  /\ pc' = "done"
            /\ op' = "getUserSyncs"
            /\ arg' = [syncOptions |-> syncOptions,
                       serverResponses |-> serverResponses]
            /\ ret' = Return(getUserSyncs(syncOptions, serverResponses))
            /\ UNCHANGED <<wins, storage, clock, res, log, sent>>

\* the caller takes the result
ReturnToCaller ==
    /\ pc = "done"
    /\ pc' = "idle"
    /\ op' = "none"
    /\ wins' = DefaultWins
    /\ storage' = Undefined
    /\ clock' = 0
    /\ arg' = NoArg
    /\ ret' = NoCompletion
    /\ res' = 0
    /\ log' = <<>>
    /\ sent' = <<>>

Next ==
    \/ CallIsBidRequestValid
    \/ CallGetTopWindowReferrer
    \/ CallElementInView
    \/ WalkStart
    \/ WalkStep
    \/ WalkExit
    \/ CallBuildRequests
    \/ CallInterpretResponse
    \/ AjaxEnds
    \/ CallGetUserSyncs
    \/ ReturnToCaller

Spec == Init /\ [][Next]_vars

\* a call runs to its end: the code is synchronous and nothing preempts it
FairSpec == Spec /\ WF_vars(WalkStep) /\ WF_vars(WalkExit)

----------------------------------------------------------------------------
(* What the claims speak of, stated on the arguments and the contexts of
   the call and not by the definitions above. *)

Done(o) == pc = "done" /\ op = o

\* the completion is the boolean b
Returned(b) == ret = Return(Bool(b))

\* the rules of the validator, one by one
ParamsIsObject(b) == b.params.t = "object"
SidIsString(b) ==
    ParamsIsObject(b) /\ "sid" \in DOMAIN b.params /\ b.params.sid.t = "string"
SsatAllowed(b) ==
    ParamsIsObject(b) /\ Get(b.params, "ssat") \in {Undefined, Num(1), Num(2)}
DeclaresNoMediaType(b) == b.mediaTypes = Undefined /\ b.mediaType = Undefined
DeclaresBanner(b) ==
    \/ b.mediaTypes.t = "object" /\ BANNER \in DOMAIN b.mediaTypes
    \/ b.mediaType = Str(BANNER)
MediaTypeRule(b) == DeclaresNoMediaType(b) \/ DeclaresBanner(b)

\* the indices of the requests of list that set params[key]
Setting(list, key) ==
    {i \in 1..Len(list) : Get(list[i].params, key) # Undefined}
\* the indices of the requests of list whose params[key] is truthy
SettingTruthy(list, key) ==
    {i \in 1..Len(list) : Truthy(Get(list[i].params, key))}
Least(S) == CHOOSE i \in S : \A j \in S : i <= j

\* C1: a bid request whose params is an object with no sid, or with a sid
\* that is not a string, is rejected: isBidRequestValid returns false.
C1_SidMustBeString ==
    (Done("isBidRequestValid")
        /\ ParamsIsObject(arg.bidRequest) /\ ~SidIsString(arg.bidRequest))
    => Returned(FALSE)

\* a request with every other rule satisfied and a sid that is a number
\* has been rejected
C1_Witness ==
    /\ Done("isBidRequestValid")
    /\ MediaTypeRule(arg.bidRequest) /\ SsatAllowed(arg.bidRequest)
    /\ Get(arg.bidRequest.params, "sid") = Num(1)
    /\ Returned(FALSE)

\* C2: a bid request whose params is not a non-null object (undefined and
\* null included) makes isBidRequestValid return false, and nothing is raised.
C2_ParamsMustBeObject ==
    (Done("isBidRequestValid") /\ ~ParamsIsObject(arg.bidRequest))
    => Returned(FALSE)

\* C3: with the other rules satisfied, isBidRequestValid returns true when
\* params.ssat is undefined, 1 or 2 and false for every other value.
C3_SsatOneOrTwo ==
    (Done("isBidRequestValid")
        /\ MediaTypeRule(arg.bidRequest) /\ SidIsString(arg.bidRequest))
    => Returned(SsatAllowed(arg.bidRequest))

\* a request with every other rule satisfied and ssat = 0 has been rejected
C3_Witness ==
    /\ Done("isBidRequestValid")
    /\ MediaTypeRule(arg.bidRequest) /\ SidIsString(arg.bidRequest)
    /\ arg.bidRequest.params.ssat = Num(0)
    /\ Returned(FALSE)

\* C4: with the other rules satisfied, isBidRequestValid returns true iff the
\* request declares no media type at all (neither mediaTypes nor mediaType) or
\* banner is among the declared ones (mediaTypes.banner, or mediaType equal
\* to banner).
C4_BannerOrNothing ==
    (Done("isBidRequestValid")
        /\ SidIsString(arg.bidRequest) /\ SsatAllowed(arg.bidRequest))
    => Returned(MediaTypeRule(arg.bidRequest))

\* a request that declares video in mediaTypes and banner in the legacy
\* mediaType has been accepted
C4_Witness ==
    /\ Done("isBidRequestValid")
    /\ SidIsString(arg.bidRequest) /\ SsatAllowed(arg.bidRequest)
    /\ arg.bidRequest.mediaTypes = VideoMediaTypes
    /\ arg.bidRequest.mediaType = Str(BANNER)
    /\ Returned(TRUE)

\* the payload of a call of buildRequests that returned
PayloadOf(completion) == completion.value.data

\* C5, as stated: the payload's yl2 is the yl2 of the first validated request
\* that sets params.yl2, an explicit false included; only when none sets it
\* is it true iff the stored flag is "1".
C5_FirstExplicitYl2 ==
    (Done("buildRequests") /\ ret.kind = "return")
    => LET valid == arg.validBidRequests
           S == Setting(valid, "yl2")
       IN  PayloadOf(ret).yl2 =
               IF S # {} THEN valid[Least(S)].params.yl2
               ELSE Bool(storage = Str("1"))

\* C5, amended: the payload's yl2 is the yl2 of the first validated request
\* whose params.yl2 is truthy; when none is truthy (unset, or an explicit
\* false) it is true iff the stored flag is "1".
C5_FirstTruthyYl2 ==
    (Done("buildRequests") /\ ret.kind = "return")
    => LET valid == arg.validBidRequests
           S == SettingTruthy(valid, "yl2")
       IN  PayloadOf(ret).yl2 =
               IF S # {} THEN valid[Least(S)].params.yl2
               ELSE Bool(storage = Str("1"))

\* the first validated request sets yl2 to false, a later one to 1, the
\* stored flag is "1", and the payload's yl2 is the later request's 1
C5_Witness ==
    /\ Done("buildRequests") /\ ret.kind = "return"
    /\ Len(arg.validBidRequests) >= 2
    /\ arg.validBidRequests[1].params.yl2 = Bool(FALSE)
    /\ arg.validBidRequests[2].params.yl2 = Num(1)
    /\ storage = Str("1")
    /\ PayloadOf(ret).yl2 = Num(1)

\* C6: the payload's ssat is the ssat of the first validated request that
\* sets params.ssat, and 2 when no validated request sets it.
C6_FirstExplicitSsat ==
    (Done("buildRequests") /\ ret.kind = "return")
    => LET valid == arg.validBidRequests
           S == Setting(valid, "ssat")
       IN  PayloadOf(ret).ssat =
               IF S # {} THEN valid[Least(S)].params.ssat ELSE Num(2)

\* the first validated request sets no ssat, the second sets 1, the batch
\* also holds a request with ssat 2, and the payload's ssat is 1
C6_Witness ==
    /\ Done("buildRequests") /\ ret.kind = "return"
    /\ Len(arg.validBidRequests) >= 2
    /\ arg.validBidRequests[1].params.ssat = Undefined
    /\ arg.validBidRequests[2].params.ssat = Num(1)
    /\ \E i \in DOMAIN arg.bidderRequest.bids :
           Get(arg.bidderRequest.bids[i].params, "ssat") = Num(2)
    /\ PayloadOf(ret).ssat = Num(1)

\* the element looked at in the i-th context of the chain: the placement in
\* the current context, and above it the frame that embeds the context below
ElementAt(i) ==
    IF i = 1 THEN Get(wins[1].elements, arg.elementId) ELSE wins[i - 1].frameElement
\* it can be got at: the placement exists, the context above can be read
Readable(i) == IF i = 1 THEN ElementAt(1) # Undefined ELSE wins[i].acc
\* its rectangle and the viewport [0, innerHeight] of its context meet
Overlaps(i) ==
    LET r == ElementAt(i).rect IN
    r.top + r.height >= 0 /\ r.top <= wins[i].innerHeight
InSight(i) == Readable(i) /\ Overlaps(i)
\* the traversal gets as far as the i-th context
Reached(i) == \A j \in 1..(i - 1) : InSight(j)

\* C7, as stated: elementInView returns true only when the element and every
\* embedding frame up to the top overlap the viewport of their context, and
\* returns undefined whenever the element cannot be resolved or any context
\* of the chain cannot be read.
C7_UndefinedWheneverUnreadable ==
    Done("elementInView")
    => /\ (ret = Return(Bool(TRUE)) => \A i \in 1..Len(wins) : InSight(i))
       /\ ((\E i \in 1..Len(wins) : ~Readable(i)) => ret = Return(Undefined))

\* C7, amended: elementInView returns true only when the element and every
\* embedding frame up to the top overlap the viewport of their context; it
\* returns undefined, raising nothing, whenever the element cannot be
\* resolved or a context cannot be read and everything below it overlaps;
\* when something below the first unreadable context does not overlap, it
\* returns false and reads no further up.
C7_UndefinedWhenReachedUnreadable ==
    Done("elementInView")
    => ret = Return(IF \A i \in 1..Len(wins) : InSight(i)
                    THEN Bool(TRUE)
                    ELSE IF \E i \in 1..Len(wins) : Reached(i) /\ ~Readable(i)
                         THEN Undefined
                         ELSE Bool(FALSE))

\* two frames deep, the placement and its frame in view, the top unreadable:
\* undefined
C7_Witness ==
    /\ Done("elementInView")
    /\ Len(wins) = 3
    /\ InSight(1) /\ InSight(2) /\ ~wins[3].acc
    /\ ret = Return(Undefined)

\* C8: getTopWindowReferrer returns the top context's document referrer when
\* it can be read, and else the current context's own document referrer; it
\* raises nothing.
C8_FallsBackToOwnReferrer ==
    Done("getTopWindowReferrer")
    => ret = Return(IF top(wins).acc
                    THEN top(wins).docReferrer
                    ELSE self(wins).docReferrer)

\* the highest context got at by parent links with every location on the way
\* readable
HighestReadable(w) ==
    CHOOSE k \in 1..Len(w) :
        /\ \A j \in 2..k : w[j].acc
        /\ k = Len(w) \/ ~w[k + 1].acc

\* C9: on every chain of contexts the walk of getMostAccessibleTopWindow ends,
\* with the highest context below the first unreadable parent (the top when
\* there is none); isMainPageAccessible is true iff no location read failed.
C9_WalkEndsAtHighestReadable ==
    [](pc = "walk" =>
        <>(/\ pc = "done"
           /\ ret = IF op = "isMainPageAccessible"
                    THEN Return(Bool(\A j \in 2..Len(wins) : wins[j].acc))
                    ELSE Return(Window(HighestReadable(wins)))))

\* under a readable parent whose own parent cannot be read, the walk has
\* ended at the parent
C9_Witness ==
    /\ Done("getMostAccessibleTopWindow")
    /\ Len(wins) = 3 /\ wins[2].acc /\ ~wins[3].acc
    /\ ret = Return(Window(2))

\* C10: every bid interpretResponse returns has the bid id of a bid request
\* of the batch as its requestId, whatever the response body.
C10_RequestIdOfBatch ==
    (Done("interpretResponse") /\ ret.kind = "return")
    => \A i \in DOMAIN ret.value.items :
           ret.value.items[i].requestId \in arg.bidIds

\* a port is set: it is given, and not as the empty string that stands for
\* no port
PortSet(x) == x \notin {Undefined, Str("")}
\* the part named, or the default when the params leave it out
PartOrDefault(params, name, default) ==
    IF Get(params, name) = Undefined THEN default ELSE Get(params, name).v

\* C11: the URL of the request buildRequests returns is https, whatever the
\* protocol of the current context, followed by the host (hb.adscale.de
\* when none is given), by a colon and securePort when securePort is set,
\* else by a colon and port when port is set, else by no port segment, and
\* by the path (/dsh when none is given), all read from the params of the
\* first bid request of bidderRequest.bids, valid or not.
C11_UrlOfFirstOriginalBid ==
    (Done("buildRequests") /\ ret.kind = "return")
    => LET params == arg.bidderRequest.bids[1].params
           securePort == Get(params, "securePort")
           port == Get(params, "port")
       IN  ret.value.url =
               Str("https://"
                   \o PartOrDefault(params, "host", "hb.adscale.de")
                   \o (IF PortSet(securePort) THEN ":" \o securePort.v
                       ELSE IF PortSet(port) THEN ":" \o port.v
                       ELSE "")
                   \o PartOrDefault(params, "path", "/dsh"))

\* in a context served over http, the first bid request of the batch is not
\* among the validated ones and sets both ports, the validated one names
\* another endpoint, and the URL is the first one's with its securePort
C11_Witness ==
    /\ Done("buildRequests") /\ ret.kind = "return"
    /\ self(wins).protocol = "http:"
    /\ Len(arg.bidderRequest.bids) = 2 /\ Len(arg.validBidRequests) = 1
    /\ arg.validBidRequests[1] = arg.bidderRequest.bids[2]
    /\ Get(arg.validBidRequests[1].params, "host") = Str("second.com")
    /\ Get(arg.bidderRequest.bids[1].params, "port") = Str("234")
    /\ Get(arg.bidderRequest.bids[1].params, "securePort") = Str("871")
    /\ ret.value.url = Str("https://other.com:871/xyz")

\* the value is there: neither null nor undefined
Present(x) == x # Null /\ x # Undefined

\* C12: the payload of the request buildRequests returns has a gdpr object
\* iff the batch has a consent object whose consentString and gdprApplies
\* are both neither null nor undefined, a gdprApplies of false included;
\* the object is {consent, applies} with these two values as they are.
C12_GdprIffBothPresent ==
    (Done("buildRequests") /\ ret.kind = "return")
    => LET consent == arg.bidderRequest.gdprConsent
           both == /\ consent.t = "object"
                   /\ Present(Get(consent, "consentString"))
                   /\ Present(Get(consent, "gdprApplies"))
       IN  PayloadOf(ret).gdpr =
               IF both
               THEN [t |-> "object",
                     consent |-> consent.consentString,
                     applies |-> consent.gdprApplies]
               ELSE Undefined

\* the consent has a consent string and says that GDPR does not apply, and
\* the payload carries both
C12_Witness ==
    /\ Done("buildRequests") /\ ret.kind = "return"
    /\ arg.bidderRequest.gdprConsent = GdprConsent(Str("consent"), Bool(FALSE))
    /\ PayloadOf(ret).gdpr =
           [t |-> "object", consent |-> Str("consent"), applies |-> Bool(FALSE)]

\* the sizes a bid request declares: those of mediaTypes.banner when it has
\* some, else the legacy ones, else none
DeclaredSizes(b) ==
    LET banner == Get(Get(b, "mediaTypes"), "banner") IN
    IF Get(banner, "sizes") # Undefined THEN banner.sizes
    ELSE IF b.sizes # Undefined THEN b.sizes
    ELSE Arr(<<>>)

\* C13: the bids of the payload buildRequests returns are as many as the
\* validated bid requests and in their order, the i-th with the bid id and
\* the slot id of the i-th validated request and with its sizes: those of
\* mediaTypes.banner.sizes if present, else the legacy sizes, else the
\* empty list.
C13_OneEntryPerValidated ==
    (Done("buildRequests") /\ ret.kind = "return")
    => LET valid == arg.validBidRequests
           bids == PayloadOf(ret).bids.items
       IN  /\ Len(bids) = Len(valid)
           /\ \A i \in DOMAIN valid :
                  /\ bids[i].bid = valid[i].bidId
                  /\ bids[i].sid = valid[i].params.sid
                  /\ bids[i].siz = DeclaredSizes(valid[i])

\* two validated requests, the first with legacy sizes only and the second
\* with both kinds: the first entry has the legacy sizes, the second those
\* of mediaTypes.banner
C13_Witness ==
    /\ Done("buildRequests") /\ ret.kind = "return"
    /\ Len(arg.validBidRequests) = 2
    /\ arg.validBidRequests[1].mediaTypes = Undefined
    /\ arg.validBidRequests[1].sizes = LegacySizes
    /\ arg.validBidRequests[2].mediaTypes = BannerMediaTypes
    /\ arg.validBidRequests[2].sizes = LegacySizes
    /\ PayloadOf(ret).bids.items[1].siz = LegacySizes
    /\ PayloadOf(ret).bids.items[2].siz = BannerMediaTypes.banner.sizes

\* the number of a response entry, 0 when the entry has none (the field is
\* missing or null)
NumberOrZero(e, name) ==
    IF Get(e, name) \in {Undefined, Null} THEN Num(0) ELSE Get(e, name)

\* the base record of a response entry
BaseRecord(e) ==
    [t |-> "object",
     requestId |-> Get(e, "bidId"),
     cpm |-> NumberOrZero(e, "cpm"),
     width |-> NumberOrZero(e, "width"),
     height |-> NumberOrZero(e, "height"),
     ad |-> Get(e, "ad"),
     ttl |-> Num(300),
     currency |-> Str("EUR"),
     netRevenue |-> Bool(TRUE),
     creativeId |-> Str("")]

\* the base record with the fields of the price-optimisation object, if the
\* entry has one, written over it
Optimised(e) ==
    LET o == Get(e, "bidPriceOptimisation")
        base == BaseRecord(e)
    IN  IF o.t # "object" THEN base
        ELSE [k \in DOMAIN base \cup (DOMAIN o \ {"t"}) |->
                 IF k \in DOMAIN o \ {"t"} THEN o[k] ELSE base[k]]

\* the body carries a list of response entries
HasEntries(body) == body.t = "object" /\ Get(body, "bids").t = "array"

\* C14: for a body with a list of response entries interpretResponse returns
\* one bid per entry, in order: the base record {requestId: bidId, cpm,
\* width, height (0 when the entry has none), ad, ttl 300, currency "EUR",
\* netRevenue true, creativeId ""} with the fields of the entry's
\* price-optimisation object written over it, and the base record itself
\* when the entry has no such object.
C14_BaseRecordThenOptimisation ==
    (Done("interpretResponse") /\ HasEntries(arg.serverResponse.body))
    => LET entries == arg.serverResponse.body.bids.items IN
       /\ ret.kind = "return"
       /\ Len(ret.value.items) = Len(entries)
       /\ \A i \in DOMAIN entries : ret.value.items[i] = Optimised(entries[i])

\* of two entries without cpm, width and height the first has a
\* price-optimisation object that names cpm and requestId, the second has
\* none: the first bid has the object's cpm and requestId and 0 for width,
\* the second is the base record with cpm 0
C14_Witness ==
    /\ Done("interpretResponse") /\ HasEntries(arg.serverResponse.body)
    /\ Len(arg.serverResponse.body.bids.items) = 2
    /\ arg.serverResponse.body.bids.items[1] =
           [t |-> "object", bidId |-> Str("1"),
            bidPriceOptimisation |->
                [t |-> "object", cpm |-> Num(9), requestId |-> Str("other")]]
    /\ arg.serverResponse.body.bids.items[2] =
           [t |-> "object", bidId |-> Str("2"), bidPriceOptimisation |-> Undefined]
    /\ ret.kind = "return"
    /\ ret.value.items[1].cpm = Num(9)
    /\ ret.value.items[1].requestId = Str("other")
    /\ ret.value.items[1].width = Num(0)
    /\ ret.value.items[2] = BaseRecord(arg.serverResponse.body.bids.items[2])
    /\ ret.value.items[2].cpm = Num(0)

\* the body is none, is empty or is no object: undefined, null, the empty
\* string, or any other value whose typeof is not 'object'
NoObject(body) == body \in {Undefined, Null, Str("")} \/ TypeOf(body) # "object"

\* C15: when the body of the response is absent (undefined or null), empty
\* (the empty string) or not an object (a string, a number, a boolean),
\* interpretResponse returns the empty list and raises nothing.
C15_NoObjectNoBids ==
    (Done("interpretResponse") /\ NoObject(arg.serverResponse.body))
    => ret = Return(Arr(<<>>))

\* a body that is a string of one blank has given the empty list
C15_Witness ==
    /\ Done("interpretResponse")
    /\ arg.serverResponse.body = Str(" ")
    /\ ret = Return(Arr(<<>>))

\* the body is an object that carries a tep: a URL, not null and not the
\* empty string
CarriesTep(body) ==
    /\ body \notin {Undefined, Null} /\ TypeOf(body) = "object"
    /\ Get(body, "tep") \notin {Undefined, Null, Str("")}

\* the body without its tep
WithoutTep(body) == [k \in DOMAIN body \ {"tep"} |-> body[k]]

\* C16: a call of interpretResponse has made exactly one request, a GET of
\* body.tep, when the body is an object that carries a tep, and none
\* otherwise; the call has ended while the request is still under way, and
\* whether the request is under way, has succeeded or has failed, the
\* completion of the call is that of the call with the same body without
\* tep.
C16_OneTrackingRequest ==
    Done("interpretResponse")
    => LET body == arg.serverResponse.body IN
       IF CarriesTep(body)
       THEN /\ Len(sent) = 1
            /\ sent[1].url = body.tep /\ sent[1].method = "GET"
            /\ sent[1].state \in {"pending", "success", "error"}
            /\ ret = interpretResponse([t |-> "object", body |-> WithoutTep(body)])
       ELSE sent = <<>>

\* the body carries a tep and two entries, the request has failed, and the
\* call has returned two bids
C16_Witness ==
    /\ Done("interpretResponse")
    /\ CarriesTep(arg.serverResponse.body)
    /\ HasEntries(arg.serverResponse.body)
    /\ Len(sent) = 1 /\ sent[1].state = "error"
    /\ ret.kind = "return" /\ Len(ret.value.items) = 2

\* the call has left everything outside it as a call finds it
NothingTouched ==
    wins = DefaultWins /\ storage = Undefined /\ log = <<>> /\ sent = <<>>

\* C17: getUserSyncs returns the one descriptor {type: "iframe", url:
\* "https://js.adscale.de/pbsync.html"} when iframe syncing is enabled in
\* the options and there is at least one response, and the empty list in
\* every other case; it logs nothing, sends nothing and writes nothing.
C17_OneIframeSync ==
    Done("getUserSyncs")
    => /\ ret = Return(IF /\ arg.syncOptions.iframeEnabled = Bool(TRUE)
                          /\ Len(arg.serverResponses.items) > 0
                       THEN Arr(<<[t |-> "object", type |-> Str("iframe"),
                                   url |-> Str("https://js.adscale.de/pbsync.html")]>>)
                       ELSE Arr(<<>>))
       /\ NothingTouched

\* with iframe syncing enabled and two responses there is one descriptor
C17_Witness ==
    /\ Done("getUserSyncs")
    /\ arg.syncOptions.iframeEnabled = Bool(TRUE)
    /\ Len(arg.serverResponses.items) = 2
    /\ ret.kind = "return" /\ Len(ret.value.items) = 1

====
